---- MODULE Spec2Model ----
(***************************************************************************)
(* Model of StackBot (src/main.py): the poll loop of main(), the state     *)
(* document it keeps in memory and in the state file, prune_state,         *)
(* load_state and save_state, together with the process being killed and   *)
(* started again.                                                          *)
(*                                                                         *)
(* Time is counted in units of 8 hours, so status_expire (24 * 3600        *)
(* seconds) is 3, and min_interval is drawn from 0..MaxMinInterval units.  *)
(* The clock starts at StartTime, not at 0: time.time() is far larger than *)
(* any interval the model uses.                                            *)
(*                                                                         *)
(* Identifiers are decimal numerals; int() and str() of lines 103, 104,    *)
(* 128 and 150 map a numeral to its value and back, so identifiers are     *)
(* modelled by their values.                                               *)
(***************************************************************************)
EXTENDS Integers, Sequences, FiniteSets

\* ---------------------------------------------------------------- bounds
MaxId == 2
MaxTime == 5
MaxMinInterval == 1

StartTime == MaxMinInterval
MinIntervals == 0..MaxMinInterval

\* ------------------------------------------------------- program constants
StatusExpire == 3
NoId == 0
NoStatus == 0
NoAcct == ""
bot_acct == "bot"

\* The statuses of the environment and the account each was posted by
\* (status["account"]["acct"]); status 4 carries no acct.
Items == 1..4
Accts == {"alice"}
Author(s) == IF s \in {1, 2} THEN "alice" ELSE IF s = 3 THEN bot_acct ELSE NoAcct
Types == {"mention", "favourite"}

\* ------------------------------------------------------------------ state
VARIABLES
    pc,                     \* position of the process in main()
    state,                  \* the in-memory state document
    todo,                   \* notifications of the sorted batch still to be iterated
    item,                   \* the notification the loop body last ran on (until save_state)
    fetched_ids,            \* identifiers of the last fetched batch, in the order returned
    branch,                 \* which branch the current cycle took
    decision,               \* how the loop body left that notification
    reaction,               \* what status_reblog did for that notification
    min_interval,           \* MIN_BOOST_INTERVAL_SECONDS
    startup_skip_existing,  \* STARTUP_SKIP_EXISTING
    clock,                  \* time.time()
    disk,                   \* the state file
    tmp,                    \* the temporary file beside it: none, partial or complete
    boosted,                \* server side: statuses a reblog has succeeded for
    boosted_again,          \* server side: statuses a reblog has succeeded for more than once
    last_success,           \* this process: account -> time of its last successful reblog
    failed                  \* this process: status -> id of the first notification whose reblog raised

vars == <<pc, state, todo, item, fetched_ids, branch, decision, reaction, min_interval,
          startup_skip_existing, clock, disk, tmp, boosted, boosted_again, last_success, failed>>

EmptyMap == [k \in {} |-> 0]

FreshState ==
    [last_notification_id |-> NoId,
     last_boost_per_user |-> EmptyMap,
     boosted_status_ids |-> EmptyMap]

\* A file: absent, cut short (not parseable), or a complete document.
NoFile == [kind |-> "none", doc |-> FreshState]
PartialFile == [kind |-> "partial", doc |-> FreshState]
Dump(st) == [kind |-> "doc", doc |-> st]

\* The file a rename of the temporary file puts in place.  A complete temporary
\* file holds json.dump(state) of line 36, and state does not change between
\* lines 36 and 37, so tmp records only how far the file has been written.
Renamed(t, st) == IF t = "complete" THEN Dump(st) ELSE PartialFile

\* ---------------------------------------------------------------- events
Payloads ==
    {[type |-> t, status |-> NoStatus, acct |-> NoAcct] : t \in Types}
    \cup {[type |-> t, status |-> s, acct |-> Author(s)] : t \in Types, s \in Items}

\* A notification in a fetched batch.  The loop body reads its other fields when it
\* reaches it (lines 130-136), and the model draws them at that step.
Events(since) == {[id |-> i] : i \in (since + 1)..MaxId}

Fields(n, p) == [id |-> n.id, type |-> p.type, status |-> p.status, acct |-> p.acct]

NoItem == [id |-> NoId, type |-> "", status |-> NoStatus, acct |-> NoAcct]

DistinctIds(seq) ==
    \A i, j \in 1..Len(seq) : i # j => seq[i].id # seq[j].id

\* What a fetch with cursor `since` may return: any events newer than the cursor, in any order.
Batches(since) ==
    UNION {{seq \in [1..n -> Events(since)] : DistinctIds(seq)} : n \in 0..MaxId}

IdList(seq) == [i \in 1..Len(seq) |-> seq[i].id]

Ids(seq) == {seq[i].id : i \in 1..Len(seq)}

MaxOf(S) == CHOOSE m \in S : \A x \in S : x <= m

\* The cursor taken from the first notification of the snapshot.
SnapshotCursorFirst(notifications) == notifications[1].id

\* lines 103-104: the cursor the startup fast-forward takes from a snapshot
SnapshotCursor(notifications) == MaxOf(Ids(notifications))

RECURSIVE Insert(_, _)
Insert(n, sorted) ==
    IF sorted = <<>> THEN <<n>>
    ELSE IF n.id < Head(sorted).id THEN <<n>> \o sorted
    ELSE <<Head(sorted)>> \o Insert(n, Tail(sorted))

\* sorted() with reverse=True: the largest identifier first.
RECURSIVE InsertDescending(_, _)
InsertDescending(n, sorted) ==
    IF sorted = <<>> THEN <<n>>
    ELSE IF n.id > Head(sorted).id THEN <<n>> \o sorted
    ELSE <<Head(sorted)>> \o InsertDescending(n, Tail(sorted))

RECURSIVE SortDescending(_)
SortDescending(seq) ==
    IF seq = <<>> THEN <<>>
    ELSE InsertDescending(Head(seq), SortDescending(Tail(seq)))

\* The batch iterated in the order the fetch returned it.
SortNone(seq) == seq

\* line 128: sorted(notifications, key=lambda n: int(n["id"]))
RECURSIVE SortById(_)
SortById(seq) ==
    IF seq = <<>> THEN <<>>
    ELSE Insert(Head(seq), SortById(Tail(seq)))

\* ------------------------------------------------------------ prune_state
\* Keep with < for <=: an entry exactly as old as the horizon is dropped.
KeepStrict(m, now, expire) ==
    [k \in {x \in DOMAIN m : now - m[x] < expire} |-> m[k]]

\* Keep with the test inverted: only the entries older than the horizon stay.
KeepExpired(m, now, expire) ==
    [k \in {x \in DOMAIN m : now - m[x] > expire} |-> m[k]]

\* lines 43-52: the entries of a table that are not older than expire
Keep(m, now, expire) ==
    [k \in {x \in DOMAIN m : now - m[x] <= expire} |-> m[k]]

Prune(st, now, mi) ==
    [last_notification_id |-> st.last_notification_id,
     last_boost_per_user |-> Keep(st.last_boost_per_user, now, mi * 2),
     boosted_status_ids |-> Keep(st.boosted_status_ids, now, StatusExpire)]

\* ------------------------------------------------------------- load_state
LoadState(file) ==
    IF file.kind = "none" THEN FreshState ELSE file.doc

\* --------------------------------------------------------- the loop body
Get(m, k, default) == IF k \in DOMAIN m THEN m[k] ELSE default

\* Decide without the acct == bot_acct test of line 137.
DecideNoSelf(n, st, now, mi) ==
    IF n.type # "mention" THEN "SkipType"
    ELSE IF n.status = NoStatus THEN "SkipNoReferencedItem"
    ELSE IF n.acct = NoAcct THEN "SkipNoReferencedItem"
    ELSE IF now - Get(st.last_boost_per_user, n.acct, 0) < mi THEN "SkipRateLimited"
    ELSE IF n.status \in DOMAIN st.boosted_status_ids THEN "SkipDuplicate"
    ELSE "Act"

\* Decide without the check of lines 150-153.
DecideNoDedup(n, st, now, mi) ==
    IF n.type # "mention" THEN "SkipType"
    ELSE IF n.status = NoStatus THEN "SkipNoReferencedItem"
    ELSE IF n.acct = NoAcct THEN "SkipNoReferencedItem"
    ELSE IF n.acct = bot_acct THEN "SkipSelf"
    ELSE IF now - Get(st.last_boost_per_user, n.acct, 0) < mi THEN "SkipRateLimited"
    ELSE "Act"

\* Decide with the dedup check of line 151 made before the rate-limit check.
DecideDedupFirst(n, st, now, mi) ==
    IF n.type # "mention" THEN "SkipType"
    ELSE IF n.status = NoStatus THEN "SkipNoReferencedItem"
    ELSE IF n.acct = NoAcct THEN "SkipNoReferencedItem"
    ELSE IF n.acct = bot_acct THEN "SkipSelf"
    ELSE IF n.status \in DOMAIN st.boosted_status_ids THEN "SkipDuplicate"
    ELSE IF now - Get(st.last_boost_per_user, n.acct, 0) < mi THEN "SkipRateLimited"
    ELSE "Act"

\* lines 130-153: the continue the loop body takes, or "Act" when it reaches line 155
Decide(n, st, now, mi) ==
    IF n.type # "mention" THEN "SkipType"
    ELSE IF n.status = NoStatus THEN "SkipNoReferencedItem"
    ELSE IF n.acct = NoAcct THEN "SkipNoReferencedItem"
    ELSE IF n.acct = bot_acct THEN "SkipSelf"
    ELSE IF now - Get(st.last_boost_per_user, n.acct, 0) < mi THEN "SkipRateLimited"
    ELSE IF n.status \in DOMAIN st.boosted_status_ids THEN "SkipDuplicate"
    ELSE "Act"

Put(m, k, v) == [x \in DOMAIN m \cup {k} |-> IF x = k THEN v ELSE m[x]]

\* lines 157-159: the first notification of a status whose reblog raised is remembered
NoteFailure(f, n) == IF n.status \in DOMAIN f THEN f ELSE Put(f, n.status, n.id)

\* Record without line 161.
RecordNoUser(st, n, now) ==
    [last_notification_id |-> n.id,
     last_boost_per_user |-> st.last_boost_per_user,
     boosted_status_ids |-> Put(st.boosted_status_ids, n.status, now)]

\* lines 129, 161-162: the document after a successful reblog
Record(st, n, now) ==
    [last_notification_id |-> n.id,
     last_boost_per_user |-> Put(st.last_boost_per_user, n.acct, now),
     boosted_status_ids |-> Put(st.boosted_status_ids, n.status, now)]

\* AfterItem going from the last notification to the sleep, without line 165.
AfterItemNoSave == IF Len(todo) = 1 THEN "Sleeping" ELSE "Processing"

\* AfterItem saving after every notification instead of after the batch.
AfterItemSavesEach == "SaveOpen"

AfterItem == IF Len(todo) = 1 THEN "SaveOpen" ELSE "Processing"

\* ------------------------------------------------------------------- Init
Init ==
    /\ pc = "Boot"
    /\ state = FreshState
    /\ todo = <<>>
    /\ item = NoItem
    /\ fetched_ids = <<>>
    /\ branch = "none"
    /\ decision = "None"
    /\ reaction = "none"
    /\ min_interval \in MinIntervals
    /\ startup_skip_existing \in BOOLEAN
    /\ clock = StartTime
    /\ disk = NoFile
    /\ tmp = "none"
    /\ boosted = {}
    /\ boosted_again = {}
    /\ last_success = EmptyMap
    /\ failed = EmptyMap

\* ---------------------------------------------------------------- actions
\* Start falling back to a fresh document when the state file cannot be parsed.
StartDefaultsToFresh ==
    /\ pc = "Boot"
    /\ pc' = "Idle"
    /\ state' = LoadState(disk)
    /\ UNCHANGED <<todo, item, fetched_ids, branch, decision, reaction, min_interval,
                   startup_skip_existing, clock, disk, tmp, boosted, boosted_again,
                   last_success, failed>>

\* line 94: state = load_state(state_file)
Start ==
    /\ pc = "Boot"
    /\ pc' = IF disk.kind = "partial" THEN "Exited" ELSE "Idle"
    /\ state' = LoadState(disk)
    /\ UNCHANGED <<todo, item, fetched_ids, branch, decision, reaction, min_interval,
                   startup_skip_existing, clock, disk, tmp, boosted, boosted_again,
                   last_success, failed>>

\* lines 97-111 with a snapshot: prune, then the startup fast-forward
StartupSkip ==
    /\ pc = "Idle"
    /\ state.last_notification_id = NoId /\ startup_skip_existing
    /\ \E notifications \in Batches(NoId) :
         LET pruned == Prune(state, clock, min_interval) IN
         /\ fetched_ids' = IdList(notifications)
         /\ IF notifications # <<>>
            THEN /\ state' = [pruned EXCEPT
                                !.last_notification_id = SnapshotCursor(notifications)]
                 /\ pc' = "SaveOpen"
            ELSE /\ state' = pruned
                 /\ pc' = "Sleeping"
    /\ branch' = "startup"
    /\ todo' = <<>>
    /\ item' = NoItem
    /\ decision' = "None"
    /\ reaction' = "none"
    /\ UNCHANGED <<min_interval, startup_skip_existing, clock, disk, tmp, boosted, boosted_again,
                   last_success, failed>>

\* line 101 raising: no handler encloses the call, the exception leaves main()
StartupSkipFault ==
    /\ pc = "Idle"
    /\ state.last_notification_id = NoId /\ startup_skip_existing
    /\ pc' = "Exited"
    /\ state' = FreshState
    /\ todo' = <<>>
    /\ item' = NoItem
    /\ fetched_ids' = <<>>
    /\ branch' = "startup"
    /\ decision' = "None"
    /\ reaction' = "none"
    /\ last_success' = EmptyMap
    /\ failed' = EmptyMap
    /\ UNCHANGED <<min_interval, startup_skip_existing, clock, disk, tmp, boosted,
                   boosted_again>>

\* FetchFault with the continue of line 120 missing and notifications left empty:
\* the cycle goes on to line 165.
FetchFaultSaves ==
    /\ pc = "Idle"
    /\ ~(state.last_notification_id = NoId /\ startup_skip_existing)
    /\ state' = Prune(state, clock, min_interval)
    /\ pc' = "SaveOpen"
    /\ branch' = "fault"
    /\ todo' = <<>>
    /\ item' = NoItem
    /\ fetched_ids' = <<>>
    /\ decision' = "None"
    /\ reaction' = "none"
    /\ UNCHANGED <<min_interval, startup_skip_existing, clock, disk, tmp, boosted,
                   boosted_again, last_success, failed>>

\* lines 97-98, 113-120: prune, then the fetch raises
FetchFault ==
    /\ pc = "Idle"
    /\ ~(state.last_notification_id = NoId /\ startup_skip_existing)
    /\ state' = Prune(state, clock, min_interval)
    /\ pc' = "Sleeping"
    /\ branch' = "fault"
    /\ todo' = <<>>
    /\ item' = NoItem
    /\ fetched_ids' = <<>>
    /\ decision' = "None"
    /\ reaction' = "none"
    /\ UNCHANGED <<min_interval, startup_skip_existing, clock, disk, tmp, boosted, boosted_again,
                   last_success, failed>>

\* lines 97-98, 113-128: prune, fetch since the cursor, sort
FetchOk ==
    /\ pc = "Idle"
    /\ ~(state.last_notification_id = NoId /\ startup_skip_existing)
    /\ \E notifications \in Batches(state.last_notification_id) :
         /\ fetched_ids' = IdList(notifications)
         /\ todo' = SortById(notifications)
         /\ item' = NoItem
         /\ pc' = IF notifications # <<>> THEN "Processing" ELSE "Sleeping"
    /\ state' = Prune(state, clock, min_interval)
    /\ branch' = "poll"
    /\ decision' = "None"
    /\ reaction' = "none"
    /\ UNCHANGED <<min_interval, startup_skip_existing, clock, disk, tmp, boosted, boosted_again,
                   last_success, failed>>

\* Skip leaving the cursor where it was: only a boost moves it.
SkipKeepsCursor ==
    /\ pc = "Processing"
    /\ \E p \in Payloads :
         LET it == Fields(Head(todo), p)
             d == Decide(it, state, clock, min_interval) IN
         /\ d # "Act"
         /\ item' = it
         /\ decision' = d
         /\ state' = state
    /\ reaction' = "none"
    /\ todo' = Tail(todo)
    /\ pc' = AfterItem
    /\ UNCHANGED <<fetched_ids, branch, min_interval, startup_skip_existing, clock,
                   disk, tmp, boosted, boosted_again, last_success, failed>>

\* lines 129-153: one iteration that ends in a continue before the reblog
Skip ==
    /\ pc = "Processing"
    /\ \E p \in Payloads :
         LET it == Fields(Head(todo), p)
             d == Decide(it, state, clock, min_interval) IN
         /\ d # "Act"
         /\ item' = it
         /\ decision' = d
         /\ state' = [state EXCEPT !.last_notification_id = it.id]
    /\ reaction' = "none"
    /\ todo' = Tail(todo)
    /\ pc' = AfterItem
    /\ UNCHANGED <<fetched_ids, branch, min_interval, startup_skip_existing, clock,
                   disk, tmp, boosted, boosted_again, last_success, failed>>

\* lines 129-163: one iteration whose reblog succeeds
Boost ==
    /\ pc = "Processing"
    /\ \E p \in Payloads :
         LET it == Fields(Head(todo), p)
             d == Decide(it, state, clock, min_interval) IN
         /\ d = "Act"
         /\ item' = it
         /\ decision' = d
         /\ state' = Record(state, it, clock)
         /\ boosted' = boosted \cup {it.status}
         /\ boosted_again' = boosted_again \cup ({it.status} \cap boosted)
         /\ last_success' = Put(last_success, it.acct, clock)
    /\ failed' = failed
    /\ reaction' = "ok"
    /\ todo' = Tail(todo)
    /\ pc' = AfterItem
    /\ UNCHANGED <<fetched_ids, branch, min_interval, startup_skip_existing, clock,
                   disk, tmp>>

\* BoostFault recording the boost although the reblog raised.
BoostFaultRecords ==
    /\ pc = "Processing"
    /\ \E p \in Payloads :
         LET it == Fields(Head(todo), p)
             d == Decide(it, state, clock, min_interval) IN
         /\ d = "Act"
         /\ item' = it
         /\ decision' = d
         /\ failed' = NoteFailure(failed, it)
         /\ state' = Record(state, it, clock)
    /\ reaction' = "fault"
    /\ todo' = Tail(todo)
    /\ pc' = AfterItem
    /\ UNCHANGED <<fetched_ids, branch, min_interval, startup_skip_existing, clock,
                   disk, tmp, boosted, boosted_again, last_success>>

\* BoostFault letting the exception leave the loop: the rest of the batch is dropped.
BoostFaultAborts ==
    /\ pc = "Processing"
    /\ \E p \in Payloads :
         LET it == Fields(Head(todo), p)
             d == Decide(it, state, clock, min_interval) IN
         /\ d = "Act"
         /\ item' = it
         /\ decision' = d
         /\ failed' = NoteFailure(failed, it)
         /\ state' = [state EXCEPT !.last_notification_id = it.id]
    /\ reaction' = "fault"
    /\ todo' = <<>>
    /\ pc' = "SaveOpen"
    /\ UNCHANGED <<fetched_ids, branch, min_interval, startup_skip_existing, clock,
                   disk, tmp, boosted, boosted_again, last_success>>

\* BoostFault leaving the cursor before the notification whose reblog raised.
BoostFaultKeepsCursor ==
    /\ pc = "Processing"
    /\ \E p \in Payloads :
         LET it == Fields(Head(todo), p)
             d == Decide(it, state, clock, min_interval) IN
         /\ d = "Act"
         /\ item' = it
         /\ decision' = d
         /\ failed' = NoteFailure(failed, it)
         /\ state' = state
    /\ reaction' = "fault"
    /\ todo' = Tail(todo)
    /\ pc' = AfterItem
    /\ UNCHANGED <<fetched_ids, branch, min_interval, startup_skip_existing, clock,
                   disk, tmp, boosted, boosted_again, last_success>>

\* lines 129-159: one iteration whose reblog raises
BoostFault ==
    /\ pc = "Processing"
    /\ \E p \in Payloads :
         LET it == Fields(Head(todo), p)
             d == Decide(it, state, clock, min_interval) IN
         /\ d = "Act"
         /\ item' = it
         /\ decision' = d
         /\ failed' = NoteFailure(failed, it)
         /\ state' = [state EXCEPT !.last_notification_id = it.id]
    /\ reaction' = "fault"
    /\ todo' = Tail(todo)
    /\ pc' = AfterItem
    /\ UNCHANGED <<fetched_ids, branch, min_interval, startup_skip_existing, clock,
                   disk, tmp, boosted, boosted_again, last_success>>

\* SaveOpen opening the state file itself instead of the temporary file.
SaveOpenInPlace ==
    /\ pc = "SaveOpen"
    /\ disk' = PartialFile
    /\ pc' = "SaveWrite"
    /\ UNCHANGED <<state, todo, item, fetched_ids, branch, decision, reaction, min_interval,
                   startup_skip_existing, clock, tmp, boosted, boosted_again,
                   last_success, failed>>

\* line 35: the temporary file is opened for writing (created or truncated)
SaveOpen ==
    /\ pc = "SaveOpen"
    /\ tmp' = "partial"
    /\ pc' = "SaveWrite"
    /\ item' = NoItem
    /\ decision' = "None"
    /\ reaction' = "none"
    /\ UNCHANGED <<state, todo, fetched_ids, branch, min_interval, startup_skip_existing,
                   clock, disk, boosted, boosted_again, last_success, failed>>

\* line 36 and the end of the with block: the document is written and the file closed
SaveWrite ==
    /\ pc = "SaveWrite"
    /\ tmp' = "complete"
    /\ pc' = "SaveRename"
    /\ UNCHANGED <<state, todo, item, fetched_ids, branch, decision, reaction, min_interval,
                   startup_skip_existing, clock, disk, boosted, boosted_again, last_success, failed>>

\* line 37: tmp_path.replace(path)
SaveRename ==
    /\ pc = "SaveRename"
    /\ disk' = Renamed(tmp, state)
    /\ tmp' = "none"
    /\ pc' = "Sleeping"
    /\ UNCHANGED <<state, todo, item, fetched_ids, branch, decision, reaction, min_interval,
                   startup_skip_existing, clock, boosted, boosted_again, last_success, failed>>

\* lines 110, 119, 167: time.sleep(poll_interval), then the next cycle
Sleep ==
    /\ pc = "Sleeping"
    /\ pc' = "Idle"
    /\ item' = NoItem
    /\ fetched_ids' = <<>>
    /\ branch' = "none"
    /\ decision' = "None"
    /\ reaction' = "none"
    /\ UNCHANGED <<state, todo, min_interval, startup_skip_existing, clock, disk, tmp,
                   boosted, boosted_again, last_success, failed>>

\* time passes; time.time() is read at lines 97 and 140 only, so the clock moves
\* where the next step can read it: while the process is down or asleep and
\* between two items of a batch
Tick ==
    /\ pc \in {"Boot", "Exited", "Sleeping", "Processing"}
    /\ clock < MaxTime
    /\ clock' \in (clock + 1)..MaxTime
    /\ UNCHANGED <<pc, state, todo, item, fetched_ids, branch, decision, reaction,
                   min_interval, startup_skip_existing, disk, tmp, boosted, boosted_again, last_success, failed>>

\* the process is killed (or has exited) and is started again: memory is lost, files stay
Crash ==
    /\ pc # "Boot"
    /\ pc' = "Boot"
    /\ state' = FreshState
    /\ todo' = <<>>
    /\ item' = NoItem
    /\ fetched_ids' = <<>>
    /\ branch' = "none"
    /\ decision' = "None"
    /\ reaction' = "none"
    /\ last_success' = EmptyMap
    /\ failed' = EmptyMap
    /\ UNCHANGED <<min_interval, startup_skip_existing, clock, disk, tmp, boosted,
                   boosted_again>>

Next ==
    \/ Start
    \/ StartupSkip
    \/ StartupSkipFault
    \/ FetchFault
    \/ FetchOk
    \/ Skip
    \/ Boost
    \/ BoostFault
    \/ SaveOpen
    \/ SaveWrite
    \/ SaveRename
    \/ Sleep
    \/ Tick
    \/ Crash

Spec == Init /\ [][Next]_vars

\* ------------------------------------------------------------ the claims
\* A step that runs one iteration of the loop body (lines 129-163), on item'.
ItemStep ==
    /\ pc = "Processing"
    /\ pc' \in {"Processing", "SaveOpen"}
    /\ todo' = Tail(todo)

\* A step that begins a cycle (lines 97-128) and leaves the process running.
CycleStep ==
    /\ pc = "Idle"
    /\ pc' \in {"Processing", "SaveOpen", "Sleeping"}

Skips == {"SkipType", "SkipNoReferencedItem", "SkipSelf", "SkipRateLimited", "SkipDuplicate"}

\* C1: over all runs, crashes and restarts included, status_reblog succeeds at
\* most once for any one status.
C1_NeverDoubleBoost == boosted_again = {}

\* C2 as stated: an item whose status is a key of boosted_status_ids is always
\* left with the decision SkipDuplicate and without a reblog call.
C2_AlwaysSkipDuplicate ==
    [][(ItemStep /\ item'.status \in DOMAIN state.boosted_status_ids)
         => (decision' = "SkipDuplicate" /\ reaction' = "none")]_vars

\* C2 amended: an item whose status is a key of boosted_status_ids is skipped
\* without a reblog call and without a change to either table; the decision is
\* SkipDuplicate exactly when the item is a mention of another account that
\* passes the rate-limit check, and an earlier skip reason otherwise.
C2_DuplicateNeverBoosted ==
    [][(ItemStep /\ item'.status \in DOMAIN state.boosted_status_ids)
         => LET last_boost == IF item'.acct \in DOMAIN state.last_boost_per_user
                              THEN state.last_boost_per_user[item'.acct] ELSE 0
            IN /\ decision' \in Skips
               /\ reaction' = "none"
               /\ boosted' = boosted /\ boosted_again' = boosted_again
               /\ state'.boosted_status_ids = state.boosted_status_ids
               /\ state'.last_boost_per_user = state.last_boost_per_user
               /\ decision' = "SkipDuplicate"
                    <=> (/\ item'.type = "mention"
                         /\ item'.acct \notin {NoAcct, bot_acct}
                         /\ clock - last_boost >= min_interval)]_vars

C2_Witness ==
    /\ decision = "SkipDuplicate"
    /\ reaction = "none"
    /\ boosted # {}

\* C3: after a reblog for an account has succeeded at time T in this process,
\* every later mention of a status of that account is left with SkipRateLimited
\* and without a reblog call when it is processed before T + min_interval, and
\* passes the rate-limit check (SkipDuplicate or Act) when it is processed at or
\* after T + min_interval, the pruning at the start of each cycle included.
C3_RateLimit ==
    [][(/\ ItemStep
        /\ item'.type = "mention"
        /\ item'.status # NoStatus
        /\ item'.acct \in DOMAIN last_success)
         => LET T == last_success[item'.acct] IN
            /\ clock < T + min_interval
                 => /\ decision' = "SkipRateLimited"
                    /\ reaction' = "none"
                    /\ boosted' = boosted
            /\ clock >= T + min_interval
                 => decision' \in {"SkipDuplicate", "Act"}]_vars

C3_Witness ==
    /\ decision = "SkipRateLimited"
    /\ "alice" \in DOMAIN last_success
    /\ clock < last_success["alice"] + min_interval

\* C4: while the process runs, last_notification_id, once set, never decreases in
\* numeric order (every fetch returns identifiers above the cursor it was given).
C4_CursorNeverDecreases ==
    [][(state.last_notification_id # NoId /\ pc' \notin {"Boot", "Exited"})
         => (/\ state'.last_notification_id # NoId
             /\ state'.last_notification_id >= state.last_notification_id)]_vars

C4_Witness ==
    /\ branch = "poll"
    /\ disk.kind = "doc"
    /\ disk.doc.last_notification_id # NoId
    /\ state.last_notification_id > disk.doc.last_notification_id

\* C5: once a fetched non-empty batch has been processed, last_notification_id is
\* the numerically largest identifier of the batch, whatever the order it came in
\* and whatever happened to each item.
C5_CursorIsBatchMax ==
    (/\ pc \in {"SaveOpen", "SaveWrite", "SaveRename", "Sleeping"}
     /\ branch = "poll"
     /\ fetched_ids # <<>>)
      => \A i \in 1..Len(fetched_ids) :
            /\ fetched_ids[i] <= state.last_notification_id
            /\ \E j \in 1..Len(fetched_ids) : fetched_ids[j] = state.last_notification_id

C5_Witness ==
    /\ pc = "SaveOpen"
    /\ branch = "poll"
    /\ fetched_ids = <<2, 1>>
    /\ state.last_notification_id = 2

\* C6 as stated: a cycle whose fetch raises leaves the three fields of the
\* document as they were before the cycle began, writes no file and goes to sleep.
C6_FaultLeavesStateUntouched ==
    [][(pc = "Idle" /\ branch' = "fault")
         => (/\ state' = state
             /\ disk' = disk /\ tmp' = tmp
             /\ pc' = "Sleeping")]_vars

\* C6 amended: a cycle whose fetch raises leaves last_notification_id as it was,
\* leaves every entry of the two tables that has not expired (age at most
\* 2 * min_interval, resp. 24 hours) as it was, adds none, drops only expired
\* ones (the pruning of line 98 has already run), writes no file and goes to sleep.
C6_FaultOnlyPrunes ==
    [][(pc = "Idle" /\ branch' = "fault")
         => (/\ state'.last_notification_id = state.last_notification_id
             /\ DOMAIN state'.last_boost_per_user \subseteq DOMAIN state.last_boost_per_user
             /\ DOMAIN state'.boosted_status_ids \subseteq DOMAIN state.boosted_status_ids
             /\ \A a \in DOMAIN state.last_boost_per_user :
                   IF a \in DOMAIN state'.last_boost_per_user
                   THEN state'.last_boost_per_user[a] = state.last_boost_per_user[a]
                   ELSE clock - state.last_boost_per_user[a] > 2 * min_interval
             /\ \A s \in DOMAIN state.boosted_status_ids :
                   IF s \in DOMAIN state'.boosted_status_ids
                   THEN state'.boosted_status_ids[s] = state.boosted_status_ids[s]
                   ELSE clock - state.boosted_status_ids[s] > StatusExpire
             /\ disk' = disk /\ tmp' = tmp
             /\ pc' = "Sleeping")]_vars

C6_Witness ==
    /\ pc = "Sleeping"
    /\ branch = "fault"
    /\ state.last_notification_id # NoId
    /\ DOMAIN state.boosted_status_ids # {}
    /\ DOMAIN state.last_boost_per_user = {}
    /\ "alice" \in DOMAIN last_success

\* C7: the state file changes only by the rename of a completely written temporary
\* file, to the document save_state was called with; it is never a partial
\* document, and what load_state returns at a start, after a kill at any step, is
\* the fresh document when there is no file and the complete document in the file
\* otherwise.
C7_AtomicSave ==
    [][/\ disk'.kind # "partial"
       /\ disk' # disk
            => (pc = "SaveRename" /\ tmp = "complete" /\ disk' = Dump(state))
       /\ (pc = "Boot" /\ pc' # "Boot")
            => (/\ pc' = "Idle"
                /\ disk.kind = "none" => state' = FreshState
                /\ disk.kind = "doc" => state' = disk.doc)]_vars

C7_Witness ==
    /\ pc = "Idle"
    /\ tmp = "partial"
    /\ disk.kind = "doc"
    /\ state = disk.doc
    /\ boosted # DOMAIN disk.doc.boosted_status_ids

\* C8: with startup_skip_existing set and no cursor, a cycle that gets a non-empty
\* snapshot sets last_notification_id to the numerically largest identifier of the
\* snapshot, saves the document and makes no reblog call; a cycle that gets an
\* empty snapshot leaves the cursor unset and makes no reblog call, and the next
\* cycle takes the startup branch again.
C8_StartupSkip ==
    [][/\ (CycleStep /\ state.last_notification_id = NoId /\ startup_skip_existing)
            => /\ branch' = "startup"
               /\ todo' = <<>>
               /\ IF fetched_ids' # <<>>
                  THEN /\ \A i \in 1..Len(fetched_ids') :
                             fetched_ids'[i] <= state'.last_notification_id
                       /\ \E i \in 1..Len(fetched_ids') :
                             fetched_ids'[i] = state'.last_notification_id
                       /\ pc' = "SaveOpen"
                  ELSE /\ state'.last_notification_id = NoId
                       /\ pc' = "Sleeping"
       /\ branch' = "startup"
            => /\ reaction' = "none" /\ decision' = "None"
               /\ boosted' = boosted /\ boosted_again' = boosted_again
               /\ pc' # "Processing"
       /\ (branch' = "startup" /\ pc' = "Sleeping")
            => IF fetched_ids' # <<>>
               THEN disk' = Dump(state') /\ state'.last_notification_id # NoId
               ELSE state'.last_notification_id = NoId /\ disk' = disk]_vars

C8_Witness ==
    /\ branch = "startup"
    /\ pc = "Sleeping"
    /\ fetched_ids = <<2, 1>>
    /\ state.last_notification_id = 2
    /\ disk = Dump(state)
    /\ boosted = {}

\* C9 as stated: an item whose status was posted by bot_acct is always left with
\* SkipSelf, without a reblog call and without a change to either table.
C9_AlwaysSkipSelf ==
    [][(ItemStep /\ item'.status # NoStatus /\ item'.acct = bot_acct)
         => (/\ decision' = "SkipSelf"
             /\ reaction' = "none"
             /\ state'.last_boost_per_user = state.last_boost_per_user
             /\ state'.boosted_status_ids = state.boosted_status_ids)]_vars

\* C9 amended: an item whose status was posted by bot_acct never causes a reblog
\* call or a change to either table, whatever the tables hold; it is left with
\* SkipSelf when it is a mention and with SkipType when it is not.
C9_SelfNeverBoosted ==
    [][(ItemStep /\ item'.status # NoStatus /\ item'.acct = bot_acct)
         => (/\ decision' = IF item'.type = "mention" THEN "SkipSelf" ELSE "SkipType"
             /\ reaction' = "none"
             /\ boosted' = boosted /\ boosted_again' = boosted_again
             /\ state'.last_boost_per_user = state.last_boost_per_user
             /\ state'.boosted_status_ids = state.boosted_status_ids)]_vars

C9_Witness ==
    /\ decision = "SkipSelf"
    /\ reaction = "none"
    /\ DOMAIN state.boosted_status_ids # {}

\* C10: the pruning at the start of a cycle removes exactly the boosted_status_ids
\* entries older than 24 hours and exactly the last_boost_per_user entries older
\* than 2 * min_interval, keeps every other entry with its timestamp, adds none and
\* leaves last_notification_id alone (the startup branch sets it afterwards); so
\* when the fetch of the cycle is made no entry in memory is older than its horizon.
C10_PruneHorizon ==
    [][CycleStep
         => (/\ DOMAIN state'.boosted_status_ids =
                  {s \in DOMAIN state.boosted_status_ids :
                      ~(clock - state.boosted_status_ids[s] > StatusExpire)}
             /\ DOMAIN state'.last_boost_per_user =
                  {a \in DOMAIN state.last_boost_per_user :
                      ~(clock - state.last_boost_per_user[a] > 2 * min_interval)}
             /\ \A s \in DOMAIN state'.boosted_status_ids :
                   /\ state'.boosted_status_ids[s] = state.boosted_status_ids[s]
                   /\ clock' - state'.boosted_status_ids[s] <= StatusExpire
             /\ \A a \in DOMAIN state'.last_boost_per_user :
                   /\ state'.last_boost_per_user[a] = state.last_boost_per_user[a]
                   /\ clock' - state'.last_boost_per_user[a] <= 2 * min_interval
             /\ branch' # "startup"
                  => state'.last_notification_id = state.last_notification_id)]_vars

C10_Witness ==
    /\ branch = "poll"
    /\ pc = "Sleeping"
    /\ disk.kind = "doc"
    /\ DOMAIN disk.doc.boosted_status_ids = {1, 2}
    /\ DOMAIN state.boosted_status_ids = {2}
    /\ clock - disk.doc.boosted_status_ids[1] > StatusExpire
    /\ clock - state.boosted_status_ids[2] = StatusExpire
    /\ DOMAIN state.last_boost_per_user = {}


\* C11: every key of boosted_status_ids stands for a reblog that returned
\* successfully: a key appears in memory only in the iteration whose
\* status_reblog call succeeded (lines 155-162), for the status of that call, or
\* is read from the state file at start, where it was saved after such a call; no
\* key appears before the call or after a call that raised.
C11_RecordedAfterSuccess ==
    [][(pc' # "Boot")
         => \A s \in DOMAIN state'.boosted_status_ids \ DOMAIN state.boosted_status_ids :
               \/ /\ ItemStep
                  /\ reaction' = "ok"
                  /\ item'.status = s
                  /\ s \in boosted'
               \/ /\ pc = "Boot"
                  /\ disk.kind = "doc"
                  /\ s \in DOMAIN disk.doc.boosted_status_ids
                  /\ s \in boosted]_vars

C11_Witness ==
    /\ pc = "SaveOpen"
    /\ reaction = "fault"
    /\ item.status \notin DOMAIN state.boosted_status_ids
    /\ DOMAIN state.boosted_status_ids # {}
    /\ DOMAIN state.boosted_status_ids \subseteq boosted

\* C12: when status_reblog raises (lines 157-159) neither table changes for that
\* notification, the cursor is still set to its id (line 129), and the loop goes
\* on with the rest of the batch: the remaining notifications stay queued and the
\* save follows only after the last of them.
C12_FaultSkipsOnlyTheItem ==
    [][(pc = "Processing" /\ reaction' = "fault" /\ todo' # todo)
         => (/\ state'.last_boost_per_user = state.last_boost_per_user
             /\ state'.boosted_status_ids = state.boosted_status_ids
             /\ state'.last_notification_id = Head(todo).id
             /\ item'.id = Head(todo).id
             /\ todo' = Tail(todo)
             /\ pc' = (IF Tail(todo) # <<>> THEN "Processing" ELSE "SaveOpen")
             /\ boosted' = boosted)]_vars

C12_Witness ==
    /\ pc = "Processing"
    /\ reaction = "fault"
    /\ todo # <<>>
    /\ state.last_notification_id = item.id
    /\ DOMAIN state.boosted_status_ids = {}
    /\ DOMAIN state.last_boost_per_user = {}


\* ------------------------------------------------ one run, fairly scheduled
\* The steps of the program itself.
LoopStep ==
    \/ Start
    \/ StartupSkip
    \/ FetchFault
    \/ FetchOk
    \/ Skip
    \/ Boost
    \/ BoostFault
    \/ SaveOpen
    \/ SaveWrite
    \/ SaveRename
    \/ Sleep

\* One run of the process: nothing kills it.
NextRun ==
    \/ LoopStep
    \/ StartupSkipFault
    \/ Tick

\* The running process always takes its next step, and faults are transient: a
\* fetch that is tried again and again succeeds again and again.
FairRun == Init /\ [][NextRun]_vars /\ WF_vars(LoopStep) /\ SF_vars(FetchOk)

\* The reblog of status s is attempted again, for a notification later than the
\* one whose reblog raised.
Retried(s) ==
    /\ reaction # "none"
    /\ item.status = s
    /\ s \in DOMAIN failed
    /\ item.id > failed[s]

\* C13 as stated: after status_reblog raised for a notification, a later cycle
\* attempts the reblog of the same status again.
C13_FailedIsRetried == \A s \in Items : (s \in DOMAIN failed) ~> Retried(s)

\* C13: after status_reblog raised for a notification the cursor is at or past
\* its id (line 129), so no later fetch of the run returns it (line 115); the
\* reblog of its status is attempted again only for a later notification, with a
\* larger id, that mentions the same status.
C13_RetryNeedsNewNotification ==
    [][/\ \A s \in DOMAIN failed' :
             /\ state'.last_notification_id >= failed'[s]
             /\ \A i \in Ids(todo') : i > failed'[s]
       /\ \A s \in DOMAIN failed :
             (ItemStep /\ item'.status = s)
                => (/\ item'.id > failed[s]
                    /\ \E k \in 1..Len(fetched_ids') : fetched_ids'[k] = item'.id)]_vars

C13_Witness ==
    /\ pc = "Sleeping"
    /\ branch = "poll"
    /\ fetched_ids = <<>>
    /\ DOMAIN failed # {}
    /\ \A s \in DOMAIN failed : state.last_notification_id = failed[s] /\ s \notin boosted


\* C14 as stated: no fault raised by a call to the server ends the poll loop, on
\* the startup path (line 101) as on the normal path (lines 113-120, 155-159):
\* the process is never stopped by the fault of a started cycle.
C14_FaultNeverEndsLoop == ~(pc = "Exited" /\ branch = "startup")


\* C15 as stated: every completed cycle that changed the document in memory
\* (cursor, new entry or pruned entry) leaves the state file equal to it.  A cycle
\* whose fetch succeeds and returns nothing is one step, from the prune of line 98
\* to the sleep; a cycle that fetched something ends at the sleep after its save.
C15_SavedAfterEveryChange ==
    [][/\ (/\ pc = "Idle"
           /\ pc' = "Sleeping"
           /\ branch' \in {"poll", "startup"}
           /\ state' # state) => disk' = Dump(state')
       /\ (pc' = "Sleeping" /\ fetched_ids' # <<>>) => disk' = Dump(state')]_vars

\* C15: a cycle that fetched at least one notification ends with the state file
\* equal to the document in memory (lines 105, 165).  A cycle that fetched
\* nothing, or whose fetch raised, saves nothing: memory then differs from the
\* file at most by the entries prune_state removed, all older than their horizon.
C15_SavedAfterEveryBatch ==
    (pc = "Sleeping")
       => LET d == LoadState(disk) IN
          /\ fetched_ids # <<>> => disk = Dump(state)
          /\ state.last_notification_id = d.last_notification_id
          /\ \A s \in DOMAIN d.boosted_status_ids :
                IF s \in DOMAIN state.boosted_status_ids
                THEN state.boosted_status_ids[s] = d.boosted_status_ids[s]
                ELSE clock - d.boosted_status_ids[s] > StatusExpire
          /\ \A a \in DOMAIN d.last_boost_per_user :
                IF a \in DOMAIN state.last_boost_per_user
                THEN state.last_boost_per_user[a] = d.last_boost_per_user[a]
                ELSE clock - d.last_boost_per_user[a] > 2 * min_interval
          /\ DOMAIN state.boosted_status_ids \subseteq DOMAIN d.boosted_status_ids
          /\ DOMAIN state.last_boost_per_user \subseteq DOMAIN d.last_boost_per_user

C15_Witness ==
    /\ pc = "Sleeping"
    /\ branch = "poll"
    /\ Len(fetched_ids) = 2
    /\ DOMAIN state.boosted_status_ids # {}
    /\ disk = Dump(state)


\* C16: the loop body leaves a notification for the first reason that applies,
\* in this order: not a mention; no status or no account; the bot's own account;
\* the account's last boost less than min_interval ago (never boosted counts as
\* time 0); the status already in boosted_status_ids; otherwise it acts.
\* status_reblog is called exactly when it acts.
C16_FirstMatchingReason ==
    [][ItemStep
         => LET n == item'
                applies == <<n.type # "mention",
                             n.status = NoStatus \/ n.acct = NoAcct,
                             n.acct = bot_acct,
                             clock - Get(state.last_boost_per_user, n.acct, 0) < min_interval,
                             n.status \in DOMAIN state.boosted_status_ids,
                             TRUE>>
                names == <<"SkipType", "SkipNoReferencedItem", "SkipSelf",
                           "SkipRateLimited", "SkipDuplicate", "Act">>
                first == CHOOSE k \in 1..6 : applies[k] /\ \A j \in 1..(k - 1) : ~applies[j]
            IN /\ decision' = names[first]
               /\ (reaction' # "none") = (decision' = "Act")
               /\ (boosted' # boosted) => (decision' = "Act")]_vars

C16_Witness ==
    /\ decision = "SkipRateLimited"
    /\ reaction = "none"
    /\ item.status \in DOMAIN state.boosted_status_ids


\* ------------------------------------- a state file left behind by anything
\* The first start finds no state file, or a file that json.load cannot parse.
InitAnyFile ==
    /\ pc = "Boot"
    /\ state = FreshState
    /\ todo = <<>>
    /\ item = NoItem
    /\ fetched_ids = <<>>
    /\ branch = "none"
    /\ decision = "None"
    /\ reaction = "none"
    /\ min_interval \in MinIntervals
    /\ startup_skip_existing \in BOOLEAN
    /\ clock = StartTime
    /\ disk \in {NoFile, PartialFile}
    /\ tmp = "none"
    /\ boosted = {}
    /\ boosted_again = {}
    /\ last_success = EmptyMap
    /\ failed = EmptyMap

SpecAnyFile == InitAnyFile /\ [][Next]_vars

\* C17: load_state returns the fresh document only when there is no state file
\* and the saved document when the file parses; when the file exists and cannot
\* be parsed the process stops at line 94, before any cycle, and the file stays
\* as it is: no run of the process replaces it.
C17_CorruptFileIsFatal ==
    [][/\ (pc = "Boot" /\ pc' # "Boot")
            => /\ disk.kind = "none" => (pc' = "Idle" /\ state' = FreshState)
               /\ disk.kind = "doc" => (pc' = "Idle" /\ state' = disk.doc)
               /\ disk.kind = "partial" => pc' = "Exited"
       /\ disk.kind = "partial"
            => (disk' = disk /\ pc' \in {"Boot", "Exited"})]_vars

C17_Witness ==
    /\ pc = "Exited"
    /\ branch = "none"
    /\ disk.kind = "partial"


\* C18: pruning never changes a rate-limit decision.  An entry that prune_state
\* removes from last_boost_per_user at time now is at least min_interval old, so
\* at now and at any later time the account passes the check of line 142 with
\* the entry (now - ts) as without it (now - 0), and the loop body decides the
\* same for every notification with the table as it was and as it is pruned.
C18_PruneKeepsRateLimit ==
    [][CycleStep
         => \A a \in DOMAIN state.last_boost_per_user \ DOMAIN state'.last_boost_per_user :
               LET ts == state.last_boost_per_user[a]
                   unpruned == [state' EXCEPT !.last_boost_per_user = state.last_boost_per_user]
               IN /\ clock - ts >= min_interval
                  /\ \A t \in clock..MaxTime :
                        /\ ~(t - ts < min_interval)
                        /\ ~(t - Get(state'.last_boost_per_user, a, 0) < min_interval)
                        /\ \A p \in Payloads :
                              Decide(Fields([id |-> 1], p), unpruned, t, min_interval)
                                 = Decide(Fields([id |-> 1], p), state', t, min_interval)]_vars

C18_Witness ==
    /\ min_interval > 0
    /\ "alice" \in DOMAIN last_success
    /\ "alice" \notin DOMAIN state.last_boost_per_user
    /\ item.acct = "alice"
    /\ decision = "SkipDuplicate"


\* C19: within one run of the process every notification id goes through the
\* loop body at most once.  The cursor is the largest id the run has iterated or
\* fast-forwarded over and never moves back; every notification the loop body
\* takes, and every one still queued after it, is above the cursor the fetch
\* was made with, and the loop body leaves the cursor on the notification it
\* took, whether it skipped it, boosted it or its reblog raised.
C19_EvaluatedAtMostOnce ==
    [][/\ ItemStep
            => /\ item'.id > state.last_notification_id
               /\ state'.last_notification_id = item'.id
               /\ \A i \in Ids(todo') : i > item'.id
       /\ (pc = "Idle" /\ pc' = "Processing")
            => \A i \in Ids(todo') : i > state.last_notification_id
       /\ (pc \notin {"Boot", "Exited"} /\ pc' \notin {"Boot", "Exited"})
            => state'.last_notification_id >= state.last_notification_id]_vars

C19_Witness ==
    /\ pc = "Sleeping"
    /\ branch = "fault"
    /\ DOMAIN failed # {}
    /\ \A s \in DOMAIN failed : failed[s] < state.last_notification_id
    /\ boosted = {}


\* C20: the state file, when there is one, is a document memory held at a save
\* point: it changes only by the rename of save_state, to the document in memory,
\* with no notification of the batch left to iterate; while the process runs its
\* cursor is never ahead of the cursor in memory; and nothing is written during
\* a batch, so a boost made in a batch is not in the file until the batch is done.
C20_FileIsASavePoint ==
    [][/\ (disk' # disk)
            => (pc = "SaveRename" /\ todo = <<>> /\ disk' = Dump(state) /\ state' = state)
       /\ (pc' \notin {"Boot", "Exited"} /\ disk'.kind = "doc")
            => disk'.doc.last_notification_id <= state'.last_notification_id
       /\ (pc = "Processing") => (disk' = disk /\ tmp' = tmp)
       /\ (pc' \in {"SaveOpen", "SaveWrite", "SaveRename"}) => todo' = <<>>
       /\ (ItemStep /\ reaction' = "ok") => disk' # Dump(state')]_vars

C20_Witness ==
    /\ pc = "SaveOpen"
    /\ reaction = "ok"
    /\ disk.kind = "doc"
    /\ disk.doc.last_notification_id < state.last_notification_id
    /\ item.status \notin DOMAIN disk.doc.boosted_status_ids
    /\ item.status \in DOMAIN state.boosted_status_ids

====
